---------------------------- MODULE Spec2Model ----------------------------
(* A model of UACrunch.py: the UAC artifact collector and parser.          *)
(*                                                                         *)
(* File names are sequences of one-character strings, file contents are    *)
(* sequences of byte values.  The collection phase (collect_files) and the *)
(* parse phase (parse_all_logs) are modelled over a directory tree drawn   *)
(* from a fixed universe of candidate source files; the text/binary        *)
(* classifier (is_text_file) is also exercised on its own over byte        *)
(* sequences (specification SpecText).                                     *)
EXTENDS Integers, Sequences, FiniteSets, TLC

VARIABLES
    \* ---- the text classifier on its own (SpecText)
    tfile,        \* the bytes of the file handed to is_text_file
    tthreshold,   \* the threshold, in hundredths
    tverdict,     \* "none" before the call, then "text" / "binary"
    treadable,    \* whether open()/read() succeeded in the call
    \* ---- the pipeline (Spec)
    inputTree,    \* the files under --path
    originalDir,  \* originalDir[c]: the files of <out>/<c>/original
    parsedDir,    \* parsedDir[c]: the files of <out>/<c>/parsed
    all_parsed,   \* the global record list
    summary_data, \* hostname -> parsed_files counter
    pc,           \* position of main()
    walk,         \* position of collect_files' loops
    visited,      \* source files / originals already handled by the current phase
    copies,       \* history: one entry per shutil.copy2
    parseLog      \* history: one entry per file visited by parse_all_logs

textVars == <<tfile, tthreshold, tverdict, treadable>>
pipeVars == <<inputTree, originalDir, parsedDir, all_parsed, summary_data, pc, walk,
              visited, copies, parseLog>>
vars == <<textVars, pipeVars>>

-----------------------------------------------------------------------------
(* Bounds *)
MaxChunk == 10
MaxFiles == 3
MaxFailures == 1

-----------------------------------------------------------------------------
(* Generic sequence helpers *)

Min(a, b) == IF a < b THEN a ELSE b

\* s[i..] starting at position i holds p
MatchAt(s, i, p) ==
    /\ i >= 1
    /\ i + Len(p) - 1 <= Len(s)
    /\ \A j \in 1..Len(p) : s[i + j - 1] = p[j]

\* Python's `k in s` for strings
Contains(s, k) == \E i \in 1..(Len(s) - Len(k) + 1) : MatchAt(s, i, k)

\* Python's s.startswith(p)
StartsWith(s, p) == MatchAt(s, 1, p)

\* Python's chunk = f.read(1024)
ReadSize == 1024
ReadChunk(bytes) == SubSeq(bytes, 1, Min(Len(bytes), ReadSize))

-----------------------------------------------------------------------------
(* is_text_file *)

text_chars == {7, 8, 9, 10, 12, 13, 27} \cup (32..255)

\* The threshold is thr/100.  nontext/len < 1 - thr/100 is computed in exact
\* arithmetic; for thr in {50, 90} and every chunk of at most 1024 bytes the
\* IEEE double comparison of the code gives the same answer (1 - 0.9 rounds
\* to 0.09999999999999998, which no k/n with n <= 1024 falls between).
is_text_file_inclusive(bytes, readable, thr) ==
    IF ~readable THEN FALSE
    ELSE LET chunk == ReadChunk(bytes) IN
         IF chunk = <<>> THEN FALSE
         ELSE LET nontext == SelectSeq(chunk, LAMBDA b : b \notin text_chars) IN
              Len(nontext) * 100 <= (100 - thr) * Len(chunk)

is_text_file(bytes, readable, thr) ==
    IF ~readable THEN FALSE
    ELSE LET chunk == ReadChunk(bytes) IN
         IF chunk = <<>> THEN FALSE
         ELSE LET nontext == SelectSeq(chunk, LAMBDA b : b \notin text_chars) IN
              Len(nontext) * 100 < (100 - thr) * Len(chunk)

DefaultThreshold == 90

-----------------------------------------------------------------------------
(* String helpers: Python's str methods on sequences of characters *)

UpperCase == <<"A", "B", "C", "D", "E", "F", "G", "H", "I", "J", "K", "L", "M", "N", "O", "P", "Q", "R", "S", "T", "U", "V", "W", "X", "Y", "Z">>
LowerCase == <<"a", "b", "c", "d", "e", "f", "g", "h", "i", "j", "k", "l", "m", "n", "o", "p", "q", "r", "s", "t", "u", "v", "w", "x", "y", "z">>
DecDigits == <<"0", "1", "2", "3", "4", "5", "6", "7", "8", "9">>

\* str.lower(), character by character
LowerChar(c) ==
    IF \E i \in 1..26 : UpperCase[i] = c
    THEN LowerCase[CHOOSE i \in 1..26 : UpperCase[i] = c]
    ELSE c

Lower(s) == [i \in 1..Len(s) |-> LowerChar(s[i])]

\* file.replace(".", "_")
ReplaceDots(s) == [i \in 1..Len(s) |-> IF s[i] = "." THEN "_" ELSE s[i]]

\* str(count) inside the f-string
RECURSIVE Str(_)
Str(n) ==
    IF n < 10 THEN <<DecDigits[n + 1]>>
    ELSE Str(n \div 10) \o <<DecDigits[(n % 10) + 1]>>

IsDigit(c) == \E i \in 1..10 : DecDigits[i] = c

\* os.path.splitext on a name without separators: the extension starts at
\* the last dot, unless only dots precede it
SplitExt(p) ==
    LET dots == {i \in 1..Len(p) : p[i] = "."} IN
    IF dots = {} THEN [base |-> p, ext |-> <<>>]
    ELSE LET d == CHOOSE i \in dots : \A j \in dots : j <= i IN
         IF \E j \in 1..(d - 1) : p[j] # "."
         THEN [base |-> SubSeq(p, 1, d - 1), ext |-> SubSeq(p, d, Len(p))]
         ELSE [base |-> p, ext |-> <<>>]

-----------------------------------------------------------------------------
(* CATEGORIES, SKIP_FOLDERS *)

CategoryOrder ==
    <<"auth_and_users", "cron_persistence", "ssh_config", "system_and_auth_logs",
      "temp_suspicious", "web_server", "hashes">>

Categories == {CategoryOrder[i] : i \in 1..Len(CategoryOrder)}

\* the category identifier as the characters of a path component
CategoryName(c) ==
    CASE c = "auth_and_users"       -> <<"a", "u", "t", "h", "_", "a", "n", "d", "_", "u", "s", "e", "r", "s">>
      [] c = "cron_persistence"     -> <<"c", "r", "o", "n", "_", "p", "e", "r", "s", "i", "s", "t", "e", "n", "c", "e">>
      [] c = "ssh_config"           -> <<"s", "s", "h", "_", "c", "o", "n", "f", "i", "g">>
      [] c = "system_and_auth_logs" -> <<"s", "y", "s", "t", "e", "m", "_", "a", "n", "d", "_", "a", "u", "t", "h", "_", "l", "o", "g", "s">>
      [] c = "temp_suspicious"      -> <<"t", "e", "m", "p", "_", "s", "u", "s", "p", "i", "c", "i", "o", "u", "s">>
      [] c = "web_server"           -> <<"w", "e", "b", "_", "s", "e", "r", "v", "e", "r">>
      [] c = "hashes"               -> <<"h", "a", "s", "h", "e", "s">>

CATEGORIES(c) ==
    CASE c = "auth_and_users" ->
           << <<"p", "a", "s", "s", "w", "d">>, <<"s", "h", "a", "d", "o", "w">>, <<"g", "r", "o", "u", "p">>, <<"l", "o", "g", "i", "n">>, <<"w", "h", "o">>, <<"l", "a", "s", "t", "l", "o", "g">>,
              <<"b", "a", "s", "h", "_", "h", "i", "s", "t", "o", "r", "y">>, <<".", "b", "a", "s", "h", "_", "h", "i", "s", "t", "o", "r", "y">> >>
      [] c = "cron_persistence" ->
           << <<"c", "r", "o", "n">>, <<"c", "r", "o", "n", "t", "a", "b">>, <<"a", "t">>, <<"s", "y", "s", "t", "e", "m", "d", "-", "t", "i", "m", "e", "r", "s">> >>
      [] c = "ssh_config" ->
           << <<"s", "s", "h", "d", "_", "c", "o", "n", "f", "i", "g">>, <<"a", "u", "t", "h", "o", "r", "i", "z", "e", "d", "_", "k", "e", "y", "s">>, <<"k", "n", "o", "w", "n", "_", "h", "o", "s", "t", "s">> >>
      [] c = "system_and_auth_logs" ->
           << <<"s", "y", "s", "l", "o", "g">>, <<"a", "u", "t", "h", ".", "l", "o", "g">>, <<"s", "e", "c", "u", "r", "e">>, <<"m", "e", "s", "s", "a", "g", "e", "s">>, <<"d", "m", "e", "s", "g">> >>
      [] c = "temp_suspicious" ->
           << <<"t", "m", "p">>, <<"t", "e", "m", "p">>, <<"s", "u", "s", "p", "i", "c", "i", "o", "u", "s">>, <<"m", "a", "l", "w", "a", "r", "e">>, <<"b", "i", "n", "w", "a", "l", "k">> >>
      [] c = "web_server" ->
           << <<"a", "p", "a", "c", "h", "e">>, <<"n", "g", "i", "n", "x">>, <<"h", "t", "t", "p", "d">>, <<"a", "c", "c", "e", "s", "s", ".", "l", "o", "g">>, <<"e", "r", "r", "o", "r", ".", "l", "o", "g">> >>
      [] c = "hashes" -> << >>

HashExecutables == <<"h", "a", "s", "h", "_", "e", "x", "e", "c", "u", "t", "a", "b", "l", "e", "s">>
SKIP_FOLDERS == { <<"b", "o", "d", "y", "f", "i", "l", "e">>, <<"h", "a", "s", "h", "_", "e", "x", "e", "c", "u", "t", "a", "b", "l", "e", "s">>, <<"l", "i", "v", "e", "_", "r", "e", "s", "p", "o", "n", "s", "e">> }

Sep == <<"_", "_">>

\* any(keyword in s for keyword in keywords)
AnyKeyword(keywords, s) == \E i \in 1..Len(keywords) : Contains(s, keywords[i])

\* next((k for k in keywords if k in s), None); None is the empty sequence
FirstKeyword(keywords, s) ==
    LET hits == {i \in 1..Len(keywords) : Contains(s, keywords[i])} IN
    IF hits = {} THEN <<>>
    ELSE keywords[CHOOSE i \in hits : \A j \in hits : i <= j]

-----------------------------------------------------------------------------
(* extract_hostname: re.match(r'(.+?)-20\d{10,}', name) *)

\* position i of the "-" such that name[i..] is "-20" and ten digits
StampAt(name, i) ==
    /\ MatchAt(name, i, <<"-", "2", "0">>)
    /\ i + 12 <= Len(name)
    /\ \A j \in (i + 3)..(i + 12) : IsDigit(name[j])

extract_hostname(name) ==
    LET hits == {i \in 2..Len(name) : StampAt(name, i)} IN
    IF hits = {} THEN name
    ELSE SubSeq(name, 1, (CHOOSE i \in hits : \A j \in hits : i <= j) - 1)

-----------------------------------------------------------------------------
(* Reading a text file: open(path, "r", errors="ignore"), line iteration,  *)
(* str.strip(), str.split                                                  *)

\* errors="ignore" under the UTF-8 default: a lone byte >= 0x80 is dropped
Decode(bytes) == SelectSeq(bytes, LAMBDA b : b < 128)

Whitespace == {9, 10, 11, 12, 13, 28, 29, 30, 31, 32}
LineEnds == {10, 13}

\* str.split(sep) and the line iteration: the pieces of s between the
\* positions that hold a separator
SplitAt(s, seps) ==
    LET cuts == SelectSeq([i \in 1..Len(s) |-> i], LAMBDA i : s[i] \in seps)
        n == Len(cuts)
    IN  [k \in 1..(n + 1) |->
           SubSeq(s, IF k = 1 THEN 1 ELSE cuts[k - 1] + 1,
                     IF k = n + 1 THEN Len(s) ELSE cuts[k] - 1)]

Strip(s) ==
    LET keep == {i \in 1..Len(s) : s[i] \notin Whitespace} IN
    IF keep = {} THEN <<>>
    ELSE SubSeq(s, CHOOSE i \in keep : \A j \in keep : i <= j,
                   CHOOSE i \in keep : \A j \in keep : j <= i)

\* [l.strip() for l in f if l.strip()]
StrippedLines(bytes) ==
    LET raw == SplitAt(Decode(bytes), LineEnds)
        stripped == [i \in 1..Len(raw) |-> Strip(raw[i])]
    IN  SelectSeq(stripped, LAMBDA l : l # <<>>)

\* result.append(...) over the lines: the records of the lines that
\* contribute one, in line order
Appended(perLine) ==
    LET some == SelectSeq(perLine, LAMBDA rs : rs # <<>>) IN
    [k \in 1..Len(some) |-> some[k][1]]

Colon == 58
Comma == 44
Star == <<42>>
Bang == <<33>>

-----------------------------------------------------------------------------
(* parse_log, parse_structured_config.                                     *)
(* io is what the file system does during the call:                        *)
(*   "ok", "read_error" (open/read of the input raises), "write_error"     *)
(*   (open of the output raises), "dump_error" (the output is created and  *)
(*   json.dump raises before it is complete).                              *)
(* The result says what the call did: the records it built (yielded), the  *)
(* state of the output file (out), what it appended to all_parsed          *)
(* (extend), the counter increment (inc) and whether an exception left the *)
(* function (raised), and whether one was raised at all (failed).         *)

IoOutcomes == {"ok", "unreadable", "read_error", "write_error", "dump_error"}

Nothing == [yielded |-> <<>>, out |-> "none", extend |-> <<>>, inc |-> 0,
            raised |-> FALSE, failed |-> FALSE]

\* the except clause of lines 67-68 and 100-101 swallows the exception
Swallowed == [Nothing EXCEPT !.failed = TRUE]

\* lines 62-68 and 95-101: write, extend, count; every exception is swallowed
Emit(records, io) ==
    IF records = <<>> THEN Nothing
    ELSE CASE io = "write_error" ->
                [Swallowed EXCEPT !.yielded = records]
           [] io = "dump_error" ->
                [Swallowed EXCEPT !.yielded = records, !.out = "partial"]
           [] OTHER ->
                [Nothing EXCEPT !.yielded = records, !.out = "json",
                                !.extend = records, !.inc = 1]

parse_log_noexcept(data, hostname, original, io) ==
    IF io = "read_error" THEN [Swallowed EXCEPT !.raised = TRUE]
    ELSE LET ls == StrippedLines(data)
             recs == [i \in 1..Len(ls) |->
                        [hostname |-> hostname, source_file |-> original, line |-> ls[i]]]
             r == Emit(recs, io)
         IN  [r EXCEPT !.raised = r.failed]

parse_log(data, hostname, original, io) ==
    IF io = "read_error" THEN Swallowed
    ELSE LET ls == StrippedLines(data)
             recs == [i \in 1..Len(ls) |->
                        [hostname |-> hostname, source_file |-> original, line |-> ls[i]]]
         IN  Emit(recs, io)

\* lines 78-94: the records one line contributes (none or one)
LineRecords(line, kind, hostname) ==
    LET parts == SplitAt(line, {Colon}) IN
    IF StartsWith(kind, <<"p", "a", "s", "s", "w", "d">>) /\ Len(parts) >= 7 THEN
        << [hostname |-> hostname, user |-> parts[1], uid |-> parts[3],
            gid |-> parts[4], desc |-> parts[5], home |-> parts[6],
            shell |-> parts[7]] >>
    ELSE IF StartsWith(kind, <<"s", "h", "a", "d", "o", "w">>) /\ Len(parts) >= 2 THEN
        << [hostname |-> hostname, user |-> parts[1],
            has_hash |-> parts[2] \notin {Star, Bang}] >>
    ELSE IF StartsWith(kind, <<"g", "r", "o", "u", "p">>) /\ Len(parts) >= 3 THEN
        << [hostname |-> hostname, group |-> parts[1], gid |-> parts[3],
            members |-> IF Len(parts) > 3 THEN SplitAt(parts[4], {Comma})
                        ELSE <<>>] >>
    ELSE IF StartsWith(kind, <<"s", "u", "d", "o", "e", "r", "s">>) THEN
        << [hostname |-> hostname, rule |-> line] >>
    ELSE <<>>

\* a variant that counts a file whose lines yield no record
parse_structured_config_counts_empty(data, kind, hostname, io) ==
    IF io = "read_error" THEN Swallowed
    ELSE LET ls == StrippedLines(data) IN
         IF ls = <<>> THEN Nothing
         ELSE LET result == Appended([i \in 1..Len(ls) |->
                                        LineRecords(ls[i], kind, hostname)])
              IN  IF result = <<>> THEN [Nothing EXCEPT !.inc = 1]
                  ELSE Emit(result, io)

parse_structured_config(data, kind, hostname, io) ==
    IF io = "read_error" THEN Swallowed
    ELSE LET ls == StrippedLines(data) IN
         IF ls = <<>> THEN Nothing
         ELSE Emit(Appended([i \in 1..Len(ls) |-> LineRecords(ls[i], kind, hostname)]), io)

-----------------------------------------------------------------------------
(* The input tree.  A source file is [host, sub, dir, name, data]: the     *)
(* host directory under --path, the sub-directory of the host directory,   *)
(* the depth of its own directory below that (0: directly inside, 1: in a  *)
(* nested directory), its name and its bytes.                              *)

HostStamped == <<"w", "-", "2", "0", "2", "3", "0", "4", "0", "1", "1", "2", "0", "0">>
HostPlain   == <<"a">>
HostJoined  == <<"a", "_", "_", "b">>
HostMarked  == <<"_", "x">>

PasswdData == <<97, 58, 120, 58, 49, 58, 49, 58, 65, 58, 104, 58, 115, 10, 10, 98, 58, 120, 10>>
ShortData  == <<120, 58, 121, 10>>
BlankData  == <<32, 10, 10>>
LogData    == <<49, 48, 58, 50, 48, 58, 51, 48, 32, 111, 107, 255, 10, 32, 10, 102, 97, 105, 108, 10>>
BinData    == <<0, 0, 0, 1, 65>>
SudoData   == <<114, 32, 65, 76, 76, 10>>
HashData   == <<100, 52, 49, 32, 120, 10>>

SrcFile(h, s, d, n, b) == [host |-> h, sub |-> s, dir |-> d, name |-> n, data |-> b]

\* the candidate files, grouped by the host directories they belong to
StampedHostFiles ==
    { SrcFile(HostStamped, <<"u">>, 0, <<"p", "a", "s", "s", "w", "d">>, PasswdData),
      SrcFile(HostStamped, <<"u">>, 1, <<"p", "a", "s", "s", "w", "d">>, ShortData),
      SrcFile(HostStamped, <<"u">>, 0, <<"p", "a", "s", "s", "w", "d", "_", "1">>, BlankData),
      SrcFile(HostStamped, <<"u">>, 0, <<"p", "a", "s", "s", "w", "d", ".", "t", "m", "p">>, PasswdData) }

PlainHostFiles ==
    { SrcFile(HostPlain, <<"u">>, 0, <<"P", "a", "s", "s", "w", "d">>, PasswdData),
      SrcFile(HostPlain, <<"u">>, 0, <<"s", "y", "s", "l", "o", "g", ".", "1">>, LogData),
      SrcFile(HostPlain, <<"u">>, 0, <<"s", "y", "s", "l", "o", "g", "_", "1">>, LogData),
      SrcFile(HostPlain, <<"u">>, 0, <<"n", "o", "t", "e", "s">>, BinData) }

MixedUserFiles ==
    { SrcFile(HostPlain, <<"g", "r", "o", "u", "p">>, 0, <<"l", "o", "g", "i", "n", ".", "l", "o", "g">>, LogData),
      SrcFile(HostPlain, <<"u">>, 1, <<"s", "u", "d", "o", "e", "r", "s", "_", "t", "m", "p">>, SudoData),
      SrcFile(HostPlain, <<"l", "i", "v", "e", "_", "r", "e", "s", "p", "o", "n", "s", "e">>, 0, <<"p", "a", "s", "s", "w", "d">>, PasswdData),
      SrcFile(HostMarked, <<"u">>, 0, <<"p", "a", "s", "s", "w", "d">>, PasswdData) }

HashFiles ==
    { SrcFile(HostPlain, HashExecutables, 0, <<"b", "_", "_", "h", "a", "s", "h">>, HashData),
      SrcFile(HostJoined, HashExecutables, 0, <<"h", "a", "s", "h">>, BinData),
      SrcFile(HostStamped, HashExecutables, 0, <<"h", "a", "s", "h">>, HashData),
      SrcFile(HostStamped, <<"u">>, 0, <<"s", "h", "a", "d", "o", "w">>, PasswdData) }

Groups == {StampedHostFiles, PlainHostFiles, MixedUserFiles, HashFiles}

\* the input trees: up to MaxFiles files of one group
InputTrees ==
    UNION { {t \in SUBSET g : Cardinality(t) \in 1..MaxFiles} : g \in Groups }

Systems == {f.host : f \in inputTree}
SubDirs(s) == {f.sub : f \in {g \in inputTree : g.host = s}}
FilesOf(s, d) == {f \in inputTree : f.host = s /\ f.sub = d}

-----------------------------------------------------------------------------
(* Directories of the output tree: sets of [name, data] with distinct names *)

Names(dir) == {e.name : e \in dir}

\* shutil.copy2 / open(path, "w"): the destination is created or replaced
WriteFile(dir, name, data) ==
    {e \in dir : e.name # name} \cup {[name |-> name, data |-> data]}

-----------------------------------------------------------------------------
(* collect_files *)

\* lines 142-145: the first of dst, base_1+ext, base_2+ext, ... that does not exist
RECURSIVE FreeDst(_, _, _, _, _)
FreeDst(names, base, ext, dst, count) ==
    IF dst \in names
    THEN LET next == base \o <<"_">> \o Str(count) \o ext
             n == count + 1
         IN  FreeDst(names, base, ext, next, n)
    ELSE dst

\* a variant without the existence loop
Destination_noloop(names, base_name) == base_name

\* lines 140-145
Destination(names, base_name) ==
    LET se == SplitExt(base_name) IN
    FreeDst(names, se.base, se.ext, base_name, 1)

\* line 138
BaseName(system_name, category, username, file) ==
    system_name \o Sep \o CategoryName(category) \o Sep \o username \o Sep \o file

\* line 120
HashName(system_name, file) == system_name \o Sep \o file

CopyEntry(f, c, dst, dir) ==
    [src |-> f, cat |-> c, dst |-> dst, existed |-> dst \in Names(dir)]

\* lines 134-147 for one file: the categories from position i on, in
\* definition order; st is [dirs, log]
RECURSIVE PlaceFrom(_, _, _, _)
PlaceFrom(st, f, file_lc, i) ==
    IF i > Len(CategoryOrder) THEN st
    ELSE LET c == CategoryOrder[i] IN
         IF c # "hashes" /\ AnyKeyword(CATEGORIES(c), file_lc)
         THEN LET dst == Destination(Names(st.dirs[c]),
                                     BaseName(f.host, c, f.sub, f.name))
                  copied == [dirs |-> [st.dirs EXCEPT ![c] = WriteFile(@, dst, f.data)],
                             log  |-> Append(st.log, CopyEntry(f, c, dst, st.dirs[c]))]
              IN  PlaceFrom(copied, f, file_lc, i + 1)
         ELSE PlaceFrom(st, f, file_lc, i + 1)

\* whether line 137 holds for some category
Collectable(f) ==
    \E c \in Categories \ {"hashes"} : AnyKeyword(CATEGORIES(c), Lower(f.name))

Idle == [stage |-> "idle", system |-> <<>>, sub |-> <<>>,
         doneSystems |-> {}, doneSubs |-> {}]

UnchangedOutput == UNCHANGED <<parsedDir, all_parsed, summary_data, parseLog>>

\* line 109-112: the next entry of os.listdir(input_path), in any order
NextSystem ==
    /\ pc = "collect" /\ walk.stage = "idle"
    /\ \E s \in Systems \ walk.doneSystems :
         walk' = IF StartsWith(s, <<"_">>)
                 THEN [walk EXCEPT !.doneSystems = @ \cup {s}]
                 ELSE [walk EXCEPT !.stage = "hash", !.system = s, !.doneSubs = {}]
    /\ UNCHANGED <<inputTree, originalDir, pc, visited, copies>>
    /\ UnchangedOutput /\ UNCHANGED textVars

\* lines 115-122: one file of hash_executables; an unreadable source makes
\* copy2 raise, which nothing catches
CopyHash ==
    /\ pc = "collect" /\ walk.stage = "hash"
    /\ \E f \in FilesOf(walk.system, HashExecutables) \ visited, readable \in BOOLEAN :
         /\ f.dir = 0
         /\ IF readable
            THEN LET dst == HashName(walk.system, f.name) IN
                 /\ originalDir' = [originalDir EXCEPT
                                      !["hashes"] = WriteFile(@, dst, f.data)]
                 /\ copies' = Append(copies,
                                     CopyEntry(f, "hashes", dst, originalDir["hashes"]))
                 /\ visited' = visited \cup {f}
                 /\ pc' = pc
            ELSE /\ pc' = "crashed"
                 /\ UNCHANGED <<originalDir, copies, visited>>
    /\ UNCHANGED <<inputTree, walk>>
    /\ UnchangedOutput /\ UNCHANGED textVars

\* the hash_executables listing is exhausted (or the directory is absent)
EndHash ==
    /\ pc = "collect" /\ walk.stage = "hash"
    /\ \A f \in FilesOf(walk.system, HashExecutables) : f \in visited \/ f.dir # 0
    /\ walk' = [walk EXCEPT !.stage = "subs"]
    /\ UNCHANGED <<inputTree, originalDir, pc, visited, copies>>
    /\ UnchangedOutput /\ UNCHANGED textVars

\* lines 125-129: the next sub-directory, skipping SKIP_FOLDERS
NextSub ==
    /\ pc = "collect" /\ walk.stage = "subs"
    /\ \E d \in SubDirs(walk.system) \ walk.doneSubs :
         walk' = IF d \in SKIP_FOLDERS
                 THEN [walk EXCEPT !.doneSubs = @ \cup {d}]
                 ELSE [walk EXCEPT !.stage = "files", !.sub = d]
    /\ UNCHANGED <<inputTree, originalDir, pc, visited, copies>>
    /\ UnchangedOutput /\ UNCHANGED textVars

\* lines 130-147: the next file of os.walk (top-down: a directory's files
\* before those of its sub-directories), through every category
CollectFile ==
    /\ pc = "collect" /\ walk.stage = "files"
    /\ \E f \in FilesOf(walk.system, walk.sub) \ visited, readable \in BOOLEAN :
         /\ \A g \in FilesOf(walk.system, walk.sub) : g.dir < f.dir => g \in visited
         /\ IF readable \/ ~Collectable(f)
            THEN \E st \in {PlaceFrom([dirs |-> originalDir, log |-> copies],
                                        f, Lower(f.name), 1)} :
                 /\ originalDir' = st.dirs
                 /\ copies' = st.log
                 /\ visited' = visited \cup {f}
                 /\ pc' = pc
            ELSE /\ pc' = "crashed"
                 /\ UNCHANGED <<originalDir, copies, visited>>
    /\ UNCHANGED <<inputTree, walk>>
    /\ UnchangedOutput /\ UNCHANGED textVars

\* os.walk of the user directory is exhausted
EndSub ==
    /\ pc = "collect" /\ walk.stage = "files"
    /\ FilesOf(walk.system, walk.sub) \subseteq visited
    /\ walk' = [walk EXCEPT !.stage = "subs", !.sub = <<>>,
                            !.doneSubs = @ \cup {walk.sub}]
    /\ UNCHANGED <<inputTree, originalDir, pc, visited, copies>>
    /\ UnchangedOutput /\ UNCHANGED textVars

\* the listing of the host directory is exhausted
EndSystem ==
    /\ pc = "collect" /\ walk.stage = "subs"
    /\ SubDirs(walk.system) \subseteq walk.doneSubs
    /\ walk' = [walk EXCEPT !.stage = "idle", !.system = <<>>, !.doneSubs = {},
                            !.doneSystems = @ \cup {walk.system}]
    /\ UNCHANGED <<inputTree, originalDir, pc, visited, copies>>
    /\ UnchangedOutput /\ UNCHANGED textVars

\* collect_files returns; main() prompts (lines 185-188)
EndCollect ==
    /\ pc = "collect" /\ walk.stage = "idle"
    /\ Systems \subseteq walk.doneSystems
    /\ pc' = "prompt"
    /\ visited' = {}
    /\ UNCHANGED <<inputTree, originalDir, walk, copies>>
    /\ UnchangedOutput /\ UNCHANGED textVars

-----------------------------------------------------------------------------
(* main(): the prompt, and parse_all_logs *)

\* lines 185-188
Prompt ==
    /\ pc = "prompt"
    /\ \E choice \in {"y", "n"} :
         IF choice = "y"
         THEN pc' = "parse"
         ELSE pc' = "declined"
    /\ UNCHANGED <<inputTree, originalDir, walk, visited, copies>>
    /\ UnchangedOutput /\ UNCHANGED textVars

StructuredKinds == { <<"p", "a", "s", "s", "w", "d">>, <<"s", "h", "a", "d", "o", "w">>, <<"g", "r", "o", "u", "p">>, <<"s", "u", "d", "o", "e", "r", "s">> }
FreeTextTriggers == << <<"l", "o", "g">>, <<"h", "i", "s", "t", "o", "r", "y">>, <<"a", "u", "t", "h", "o", "r", "i", "z", "e", "d", "_", "k", "e", "y", "s">>, <<"h", "a", "s", "h">> >>

JsonName(file) == ReplaceDots(file) \o <<".", "j", "s", "o", "n">>

\* lines 160-165: the strategy for a file that is_text_file accepted or not,
\* given its matched_key and whether its lower-cased name holds a trigger
Dispatch(matched_key, triggered, text) ==
    IF ~text THEN "nontext"
    ELSE IF matched_key \in StructuredKinds THEN "structured"
    ELSE IF triggered THEN "free"
    ELSE "skip"

\* summary_data[hostname]['parsed_files'] += n on the nested defaultdict
Count(summary, hostname, n) ==
    IF n = 0 THEN summary
    ELSE IF hostname \in DOMAIN summary
         THEN [summary EXCEPT ![hostname] = @ + n]
         ELSE (hostname :> n) @@ summary

AllParsed(c) == \A e \in originalDir[c] : <<c, e.name>> \in visited

\* line 150: the category the outer loop is in: the first, in definition
\* order, with a file still to visit
CurrentCategory(i) ==
    /\ \A j \in 1..(i - 1) : AllParsed(CategoryOrder[j])
    /\ ~AllParsed(CategoryOrder[i])

\* the I/O failures so far in parse_all_logs
Failures == Cardinality({i \in 1..Len(parseLog) : parseLog[i].io # "ok"})

\* lines 157-165 for one file: what is decided before any parsing
Decision(c, file, text) ==
    [hostname |-> extract_hostname(file),
     matched_key |-> FirstKeyword(CATEGORIES(c), file),
     strategy |-> Dispatch(FirstKeyword(CATEGORIES(c), file),
                           AnyKeyword(FreeTextTriggers, Lower(file)), text)]

\* lines 162-165: the call the decision leads to
Parse(d, file, data, io) ==
    CASE d.strategy = "structured" ->
           parse_structured_config(data, d.matched_key, d.hostname, io)
      [] d.strategy = "free" ->
           parse_log(data, d.hostname, file, io)
      [] OTHER -> Nothing

\* lines 153-165: one file of os.listdir(orig_dir), in any order
ParseFile ==
    /\ pc = "parse"
    /\ \E i \in 1..Len(CategoryOrder) :
         /\ CurrentCategory(i)
         /\ \E e \in originalDir[CategoryOrder[i]], io \in IoOutcomes :
              /\ <<CategoryOrder[i], e.name>> \notin visited
              /\ io = "ok" \/ Failures < MaxFailures
              /\ \E d \in {Decision(CategoryOrder[i], e.name,
                                    is_text_file(e.data, io # "unreadable",
                                                 DefaultThreshold))} :
                 \E r \in {Parse(d, e.name, e.data, io)} :
                   /\ parsedDir' =
                        IF r.out = "none" THEN parsedDir
                        ELSE [parsedDir EXCEPT ![CategoryOrder[i]] =
                                WriteFile(@, JsonName(e.name),
                                          IF r.out = "json" THEN r.yielded ELSE <<>>)]
                   /\ all_parsed' = all_parsed \o r.extend
                   /\ summary_data' = Count(summary_data, d.hostname, r.inc)
                   /\ pc' = IF r.raised THEN "parse_crashed" ELSE pc
                   /\ parseLog' = Append(parseLog,
                         [cat |-> CategoryOrder[i], file |-> e.name,
                          io |-> IF r.failed \/ io = "unreadable" THEN io ELSE "ok",
                          strategy |-> d.strategy, kind |-> d.matched_key,
                          hostname |-> d.hostname, yielded |-> r.yielded,
                          out |-> r.out])
                   /\ visited' = visited \cup {<<CategoryOrder[i], e.name>>}
    /\ UNCHANGED <<inputTree, originalDir, walk, copies>>
    /\ UNCHANGED textVars

\* parse_all_logs returns
EndParse ==
    /\ pc = "parse"
    /\ \A c \in Categories : AllParsed(c)
    /\ pc' = "done"
    /\ UNCHANGED <<inputTree, originalDir, walk, visited, copies>>
    /\ UnchangedOutput /\ UNCHANGED textVars

-----------------------------------------------------------------------------
(* The pipeline as a whole *)

TextIdle ==
    /\ tfile = <<>> /\ tthreshold = DefaultThreshold
    /\ tverdict = "none" /\ treadable = TRUE

\* after create_output_dirs: every category has empty original/ and parsed/
Init ==
    /\ inputTree \in InputTrees
    /\ originalDir = [c \in Categories |-> {}]
    /\ parsedDir = [c \in Categories |-> {}]
    /\ all_parsed = <<>>
    /\ summary_data = <<>>
    /\ pc = "collect"
    /\ walk = Idle
    /\ visited = {}
    /\ copies = <<>>
    /\ parseLog = <<>>
    /\ TextIdle

Next ==
    \/ NextSystem \/ CopyHash \/ EndHash \/ NextSub \/ CollectFile \/ EndSub
    \/ EndSystem \/ EndCollect \/ Prompt \/ ParseFile \/ EndParse

Spec == Init /\ [][Next]_vars

-----------------------------------------------------------------------------
(* is_text_file on its own *)

Thresholds == {50, 90}
ByteSamples == {0, 7, 11, 27, 31, 32, 127, 255}
FillBytes == {0, 65}

\* 1024 text bytes followed by binary bytes beyond the chunk that is read
LongFile == [i \in 1..1100 |-> IF i <= 1024 THEN 65 ELSE 0]

SeedFiles ==
    {<<>>, LongFile} \cup {<<b>> : b \in ByteSamples}
      \cup {<<b, c>> : b \in ByteSamples, c \in ByteSamples}

PipeIdle ==
    /\ inputTree = {}
    /\ originalDir = [c \in Categories |-> {}]
    /\ parsedDir = [c \in Categories |-> {}]
    /\ all_parsed = <<>>
    /\ summary_data = <<>>
    /\ pc = "text"
    /\ walk = Idle
    /\ visited = {}
    /\ copies = <<>>
    /\ parseLog = <<>>

InitText ==
    /\ tfile \in SeedFiles
    /\ tthreshold \in Thresholds
    /\ tverdict = "none"
    /\ treadable = TRUE
    /\ PipeIdle

\* the file grows by one byte
AppendByte ==
    /\ tverdict = "none" /\ Len(tfile) < MaxChunk
    /\ \E b \in FillBytes : tfile' = Append(tfile, b)
    /\ UNCHANGED <<tthreshold, tverdict, treadable>>
    /\ UNCHANGED pipeVars

\* a call of is_text_file(path, threshold)
Classify ==
    /\ tverdict = "none"
    /\ \E readable \in BOOLEAN :
         /\ treadable' = readable
         /\ tverdict' = IF is_text_file(tfile, readable, tthreshold)
                        THEN "text" ELSE "binary"
    /\ UNCHANGED <<tfile, tthreshold>>
    /\ UNCHANGED pipeVars

NextText == AppendByte \/ Classify

SpecText == InitText /\ [][NextText]_vars

-----------------------------------------------------------------------------
(* Notions the properties are stated in *)

\* the copies of the per-user walk (everything but hash_executables)
KeywordCopies == {k \in 1..Len(copies) : copies[k].cat # "hashes"}

\* the first category, in definition order and without "hashes", one of
\* whose keywords is a substring of the lower-cased name; "" when none is
FirstCategoryFor(name) ==
    LET hits == {i \in 1..Len(CategoryOrder) :
                   /\ CategoryOrder[i] # "hashes"
                   /\ \E j \in 1..Len(CATEGORIES(CategoryOrder[i])) :
                        Contains(Lower(name), CATEGORIES(CategoryOrder[i])[j])}
    IN  IF hits = {} THEN ""
        ELSE CategoryOrder[CHOOSE i \in hits : \A j \in hits : i <= j]

\* the desired name of copy k, and its rank among the copies of that name
\* into the same directory
DesiredName(k) ==
    BaseName(copies[k].src.host, copies[k].cat, copies[k].src.sub, copies[k].src.name)

Rank(k) ==
    Cardinality({m \in KeywordCopies :
                   m < k /\ copies[m].cat = copies[k].cat /\ DesiredName(m) = DesiredName(k)})

\* b, b_1, b_2, ...: the suffix goes before the extension
Suffixed(b, n) ==
    IF n = 0 THEN b
    ELSE SplitExt(b).base \o <<"_">> \o Str(n) \o SplitExt(b).ext

\* the n with dst = Suffixed(b, n), among 0..bound; -1 when there is none
SuffixOf(b, dst, bound) ==
    IF \E n \in 0..bound : dst = Suffixed(b, n)
    THEN CHOOSE n \in 0..bound : dst = Suffixed(b, n)
    ELSE -1

\* the source file an original came from: the last copy to that path
SourceOf(c, name) ==
    LET ks == {k \in 1..Len(copies) : copies[k].cat = c /\ copies[k].dst = name} IN
    copies[CHOOSE k \in ks : \A m \in ks : m <= k].src

\* the host identifier of a host directory name
HostId(H) ==
    IF \E i \in 2..Len(H) :
         /\ SubSeq(H, i, i + 2) = <<"-", "2", "0">>
         /\ i + 12 <= Len(H)
         /\ \A j \in (i + 3)..(i + 12) : H[j] \in {DecDigits[d] : d \in 1..10}
    THEN SubSeq(H, 1, (CHOOSE i \in 2..Len(H) :
                         /\ SubSeq(H, i, i + 2) = <<"-", "2", "0">>
                         /\ i + 12 <= Len(H)
                         /\ \A j \in (i + 3)..(i + 12) : H[j] \in {DecDigits[d] : d \in 1..10}
                         /\ \A m \in 2..(i - 1) :
                              ~(/\ SubSeq(H, m, m + 2) = <<"-", "2", "0">>
                                /\ m + 12 <= Len(H)
                                /\ \A j \in (m + 3)..(m + 12) :
                                     H[j] \in {DecDigits[d] : d \in 1..10})) - 1)
    ELSE H

\* the records of the log entries in ks, in log order
Wrote(e) == e.out = "json"
Succeeded(e) == e.io = "ok" /\ e.out = "json"

WrittenEntries == {n \in 1..Len(parseLog) : Wrote(parseLog[n])}
SucceededEntries == {n \in 1..Len(parseLog) : Succeeded(parseLog[n])}

RECURSIVE RecordsUpTo(_, _)
RecordsUpTo(n, ks) ==
    IF n = 0 THEN <<>>
    ELSE RecordsUpTo(n - 1, ks) \o (IF n \in ks THEN parseLog[n].yielded ELSE <<>>)

RECURSIVE SumOver(_, _)
SumOver(f, S) ==
    IF S = {} THEN 0
    ELSE LET x == CHOOSE y \in S : TRUE IN f[x] + SumOver(f, S \ {x})

-----------------------------------------------------------------------------
(* C1: every file of the per-user walk is copied into at most one          *)
(* category's original/ directory, the first category in definition order  *)
(* (without "hashes") with a keyword contained in the lower-cased name; a  *)
(* file that matches no keyword is copied nowhere.                         *)
C1_FirstCategoryOnly ==
    \A k \in KeywordCopies :
        /\ copies[k].cat = FirstCategoryFor(copies[k].src.name)
        /\ \A m \in KeywordCopies : copies[m].src = copies[k].src => m = k

-----------------------------------------------------------------------------
-----------------------------------------------------------------------------
(* C3: every copy of the collection, those into hashes/original included,  *)
(* writes to a path that does not exist at that moment, so that two source *)
(* files never end up at the same hashes/original path.                    *)
C3_NoCopyOntoExistingPath ==
    /\ \A k \in 1..Len(copies) : ~copies[k].existed
    /\ \A k, m \in 1..Len(copies) :
         (copies[k].cat = copies[m].cat /\ copies[k].dst = copies[m].dst) => k = m

-----------------------------------------------------------------------------
(* C4: for a text file of a keyword category, the keyword parse_all_logs   *)
(* derives from the placed name is the keyword that made collect_files     *)
(* collect the file (the first keyword of the category contained in the    *)
(* lower-cased original name).                                             *)
C4_SameKeywordInBothPhases ==
    \A n \in 1..Len(parseLog) :
        (parseLog[n].cat # "hashes" /\ parseLog[n].strategy # "nontext")
          => parseLog[n].kind =
               FirstKeyword(CATEGORIES(parseLog[n].cat),
                            Lower(SourceOf(parseLog[n].cat, parseLog[n].file).name))

-----------------------------------------------------------------------------
(* C5: every record made from a file collected out of host directory H     *)
(* carries the host identifier of H as its hostname.                       *)
C5_RecordsCarryHostId ==
    \A n \in 1..Len(parseLog) :
        \A i \in 1..Len(parseLog[n].yielded) :
            parseLog[n].yielded[i].hostname
              = HostId(SourceOf(parseLog[n].cat, parseLog[n].file).host)

-----------------------------------------------------------------------------
(* C6 *)

PrintableIsh == (32..255) \cup {7, 8, 9, 10, 12, 13, 27}

Printable(chunk) == Cardinality({i \in 1..Len(chunk) : chunk[i] \in PrintableIsh})

FirstChunk == IF Len(tfile) <= 1024 THEN tfile ELSE [i \in 1..1024 |-> tfile[i]]

(* C6 as stated: is_text_file is true exactly when the first chunk is      *)
(* readable, non-empty and its printable fraction is at least the          *)
(* threshold.                                                              *)
C6_AtLeastThreshold ==
    tverdict # "none" =>
        (tverdict = "text" <=>
            /\ treadable
            /\ FirstChunk # <<>>
            /\ Printable(FirstChunk) * 100 >= tthreshold * Len(FirstChunk))

(* C6 as amended: with the threshold 0.90 (the default, and likewise 0.50) *)
(* is_text_file is true exactly when the first chunk is readable,          *)
(* non-empty and its printable fraction is strictly greater than the       *)
(* threshold; a chunk whose printable fraction equals the threshold is     *)
(* not text.                                                               *)
C6_AboveThreshold ==
    tverdict # "none" =>
        (tverdict = "text" <=>
            /\ treadable
            /\ FirstChunk # <<>>
            /\ Printable(FirstChunk) * 100 > tthreshold * Len(FirstChunk))

\* nine printable bytes out of ten at the default threshold
C6_Witness ==
    /\ tverdict = "binary" /\ treadable
    /\ tthreshold = 90 /\ Len(tfile) = 10 /\ Printable(tfile) = 9

-----------------------------------------------------------------------------
(* C7: a file that yields no record writes no JSON file, appends nothing   *)
(* and creates no counter; a file that yields records and whose write      *)
(* succeeds appends exactly those records, in line order, and adds one to  *)
(* the counter of its hostname.  So all_parsed is the concatenation of the *)
(* records of the written files, each counter is the number of written     *)
(* files of its host, and the counters add up to the number of writes.     *)
C7_WritesAndCountersAgree ==
    /\ \A n \in 1..Len(parseLog) :
         /\ parseLog[n].yielded = <<>> => parseLog[n].out = "none"
         /\ parseLog[n].out = "json" => parseLog[n].yielded # <<>>
    /\ all_parsed = RecordsUpTo(Len(parseLog), WrittenEntries)
    /\ DOMAIN summary_data = {parseLog[n].hostname : n \in {m \in 1..Len(parseLog) : Wrote(parseLog[m])}}
    /\ \A h \in DOMAIN summary_data :
         summary_data[h] = Cardinality({n \in 1..Len(parseLog) :
                                          Wrote(parseLog[n]) /\ parseLog[n].hostname = h})
    /\ SumOver(summary_data, DOMAIN summary_data)
         = Cardinality({n \in 1..Len(parseLog) : Wrote(parseLog[n])})
    /\ \A c \in Categories :
         Names(parsedDir[c]) = {JsonName(parseLog[n].file) :
                                  n \in {m \in 1..Len(parseLog) :
                                           parseLog[m].cat = c /\ parseLog[m].out # "none"}}

\* a structured file without records after a file that was written
C7_Witness ==
    \E i, j \in 1..Len(parseLog) :
        /\ parseLog[i].out = "json" /\ Len(parseLog[i].yielded) >= 1
        /\ parseLog[j].strategy = "structured" /\ parseLog[j].io = "ok"
        /\ parseLog[j].yielded = <<>>
        /\ i < j
        /\ summary_data[parseLog[i].hostname] >= 1

-----------------------------------------------------------------------------
(* C8: an I/O failure on one file never aborts parse_all_logs: the file    *)
(* appends nothing and counts nothing, what earlier files appended and     *)
(* counted stays, and every file of every category is still visited.       *)
C8_FailuresAreLocal ==
    /\ pc # "parse_crashed"
    /\ \A n \in 1..Len(parseLog) : parseLog[n].io # "ok" => parseLog[n].out # "json"
    /\ all_parsed = RecordsUpTo(Len(parseLog), SucceededEntries)
    /\ \A h \in DOMAIN summary_data :
         summary_data[h] = Cardinality({n \in 1..Len(parseLog) :
                                          Succeeded(parseLog[n]) /\ parseLog[n].hostname = h})
    /\ pc = "done" =>
         \A c \in Categories : \A e \in originalDir[c] :
             \E n \in 1..Len(parseLog) : parseLog[n].cat = c /\ parseLog[n].file = e.name

\* the phase ended after a failure on one file and a later file was parsed
C8_Witness ==
    /\ pc = "done"
    /\ \E i, j \in 1..Len(parseLog) :
         /\ i < j
         /\ parseLog[i].io \in {"read_error", "write_error", "dump_error"}
         /\ parseLog[i].strategy \in {"structured", "free"}
         /\ Succeeded(parseLog[j])
    /\ all_parsed # <<>>

-----------------------------------------------------------------------------
(* C9: a text file whose name contains "sudoers" is dispatched to the      *)
(* delimited strategy with kind "sudoers", and each of its non-empty lines *)
(* becomes one record.                                                     *)
C9_SudoersDispatched ==
    \A n \in 1..Len(parseLog) :
        (parseLog[n].strategy # "nontext" /\ parseLog[n].io = "ok"
           /\ Contains(parseLog[n].file, <<"s", "u", "d", "o", "e", "r", "s">>))
          => /\ parseLog[n].strategy = "structured"
             /\ parseLog[n].kind = <<"s", "u", "d", "o", "e", "r", "s">>
             /\ Len(parseLog[n].yielded) >= 1

-----------------------------------------------------------------------------
(* C10: two files of one original/ directory never share a parsed/ path,   *)
(* so no JSON file is overwritten by a later file, and after the phase     *)
(* parsed/ holds one JSON file per file that produced records.             *)
C10_JsonPathsDistinct ==
    /\ \A i, j \in 1..Len(parseLog) :
         (i < j /\ parseLog[i].cat = parseLog[j].cat
            /\ parseLog[i].out # "none" /\ parseLog[j].out # "none")
           => JsonName(parseLog[i].file) # JsonName(parseLog[j].file)
    /\ pc = "done" =>
         \A c \in Categories :
             Cardinality(parsedDir[c])
               = Cardinality({n \in 1..Len(parseLog) :
                                parseLog[n].cat = c /\ parseLog[n].yielded # <<>>
                                  /\ parseLog[n].io = "ok"})

=============================================================================
